---- MODULE Spec2Model ----
(***************************************************************************)
(* bottom/pack.py: packing of an IRC command and its keyword arguments     *)
(* into one protocol line (a simplified rfc2812).                          *)
(*                                                                         *)
(* A Python str is a sequence of one-character strings.  A Python value    *)
(* is a record [t, v]: S(chars) a str, I(n) an int, L(elements) a list of  *)
(* str/int values, and the sentinel `missing`.  The outcome of a call is   *)
(* a record: Return(chars), or a raised ValueError(message) or             *)
(* KeyError(key).                                                          *)
(***************************************************************************)
EXTENDS Integers, Sequences, FiniteSets, TLC

VARIABLES command, kwargs, result, pc

vars == <<command, kwargs, result, pc>>

-----------------------------------------------------------------------------
(* Python values *)

S(s) == [t |-> "str", v |-> s]

I(n) == [t |-> "int", v |-> <<n>>]

L(s) == [t |-> "seq", v |-> s]

None == [t |-> "none", v |-> <<>>]

missing == [t |-> "missing", v |-> <<>>]

(* Outcomes of a call *)

Return(s) == [kind |-> "return", exc |-> "", key |-> "", val |-> s]

ValueError(msg) == [kind |-> "raise", exc |-> "ValueError", key |-> "", val |-> msg]

KeyError(field) == [kind |-> "raise", exc |-> "KeyError", key |-> field, val |-> <<>>]

NoResult == [kind |-> "none", exc |-> "", key |-> "", val |-> <<>>]

-----------------------------------------------------------------------------
(* Builtins of the language that the module relies on *)

LowerCase == <<"a","b","c","d","e","f","g","h","i","j","k","l","m","n","o","p","q","r","s","t","u","v","w","x","y","z">>

UpperCase == <<"A","B","C","D","E","F","G","H","I","J","K","L","M","N","O","P","Q","R","S","T","U","V","W","X","Y","Z">>

DigitChars == <<"0","1","2","3","4","5","6","7","8","9">>

(* the upper-case letter of each lower-case letter *)
ToUpper == [c \in {LowerCase[i] : i \in 1..26} |->
               UpperCase[CHOOSE i \in 1..26 : LowerCase[i] = c]]

(* str.upper() on one character *)
upper_char(c) == IF c \in DOMAIN ToUpper THEN ToUpper[c] ELSE c

(* str.upper() *)
upper(s) == [i \in 1..Len(s) |-> upper_char(s[i])]

RECURSIVE digits(_)
(* decimal rendering of a natural number *)
digits(n) ==
    IF n < 10 THEN <<DigitChars[n + 1]>>
    ELSE digits(n \div 10) \o <<DigitChars[(n % 10) + 1]>>

(* str(int) *)
int_str(n) == IF n < 0 THEN <<"-">> \o digits(0 - n) ELSE digits(n)

(* repr() of a list element: a str is quoted, an int is not *)
repr(x) == IF x.t = "str" THEN <<"'">> \o x.v \o <<"'">> ELSE int_str(x.v[1])

RECURSIVE join(_, _)
(* sep.join(strs) *)
join(sep, strs) ==
    IF strs = <<>> THEN <<>>
    ELSE IF Len(strs) = 1 THEN strs[1]
    ELSE strs[1] \o sep \o join(sep, Tail(strs))

(* str(value) *)
str(x) ==
    IF x.t = "str" THEN x.v
    ELSE IF x.t = "int" THEN int_str(x.v[1])
    ELSE IF x.t = "seq"
    THEN <<"[">> \o join(<<","," ">>, [i \in 1..Len(x.v) |-> repr(x.v[i])]) \o <<"]">>
    ELSE <<"N","o","n","e">>

(* truth value of an object: `if not command` *)
truthy(x) ==
    IF x.t = "str" THEN x.v # <<>>
    ELSE IF x.t = "int" THEN x.v[1] # 0
    ELSE IF x.t = "seq" THEN x.v # <<>>
    ELSE FALSE

(* the first raised exception among argument values evaluated left to right *)
first_raise(rs) ==
    rs[CHOOSE i \in 1..Len(rs) :
          /\ rs[i].kind = "raise"
          /\ \A j \in 1..(i - 1) : rs[j].kind # "raise"]

RECURSIVE format_str(_, _)
(* str.format with positional {} fields *)
format_str(tmpl, args) ==
    IF tmpl = <<>> THEN <<>>
    ELSE IF Len(tmpl) >= 2 /\ tmpl[1] = "{" /\ tmpl[2] = "}"
    THEN args[1] \o format_str(SubSeq(tmpl, 3, Len(tmpl)), Tail(args))
    ELSE <<tmpl[1]>> \o format_str(Tail(tmpl), args)

(* tmpl.format(a1, .., an): the arguments are evaluated first, in order *)
format(tmpl, rs) ==
    IF \E i \in 1..Len(rs) : rs[i].kind = "raise"
    THEN first_raise(rs)
    ELSE Return(format_str(tmpl, [i \in 1..Len(rs) |-> rs[i].val]))

(* a + b on strings, b evaluated after a *)
concat(a, b) ==
    IF a.kind = "raise" THEN a
    ELSE IF b.kind = "raise" THEN b
    ELSE Return(a.val \o b.val)

-----------------------------------------------------------------------------
(* pack.py: the two field helpers *)

(* kwargs.get(field, default) *)
get(kw, field, default) == IF field \in DOMAIN kw THEN kw[field] ELSE default

(* a missing field without default is read as the empty string *)
f_lenient(field, kw, default) ==
    IF default # missing
    THEN Return(str(get(kw, field, default)))
    ELSE Return(str(get(kw, field, S(<<>>))))

f(field, kw, default) ==
    IF default # missing
    THEN Return(str(get(kw, field, default)))
    ELSE IF field \in DOMAIN kw
         THEN Return(str(kw[field]))
         ELSE KeyError(field)

(* the iterable branch is left out: a list is stringified *)
pack_value_no_join(value, sep) ==
    IF value.t = "str" THEN Return(value.v) ELSE Return(str(value))

(* the str test is left out: a str is iterated character by character *)
pack_value_split_str(value, sep) ==
    IF value.t = "str"
    THEN Return(join(sep, [i \in 1..Len(value.v) |-> <<value.v[i]>>]))
    ELSE IF value.t = "seq"
    THEN Return(join(sep, [i \in 1..Len(value.v) |-> str(value.v[i])]))
    ELSE Return(str(value))

(* lines 20-25 of pack: a str is returned as it is, any other iterable is
   joined, anything else is stringified.  collections.abc is taken to be
   loaded, as it is once asyncio has been imported. *)
pack_value(value, sep) ==
    IF value.t = "str" THEN Return(value.v)
    ELSE IF value.t = "seq"
    THEN Return(join(sep, [i \in 1..Len(value.v) |-> str(value.v[i])]))
    ELSE Return(str(value))

pack(field, kw, default, sep) ==
    IF default # missing
    THEN pack_value(get(kw, field, default), sep)
    ELSE IF field \in DOMAIN kw
         THEN pack_value(kw[field], sep)
         ELSE KeyError(field)

(* the default value of pack's sep parameter *)
default_sep == <<",">>

-----------------------------------------------------------------------------
(* pack_command: one definition per branch of the command chain *)

Lit(s) == Return(s)

cmd_PASS(kw) == concat(Lit(<<"P","A","S","S"," ">>), f("password", kw, missing))

cmd_NICK(kw) == concat(Lit(<<"N","I","C","K"," ">>), f("nick", kw, missing))

cmd_USER(kw) ==
    format(<<"U","S","E","R"," ","{","}"," ","{","}"," ","*"," ",":","{","}">>,
           <<f("user", kw, missing), f("mode", kw, I(0)), f("realname", kw, missing)>>)

cmd_OPER(kw) ==
    format(<<"O","P","E","R"," ","{","}"," ","{","}">>, <<f("user", kw, missing), f("password", kw, missing)>>)

(* USERMODE sent under its own name instead of MODE *)
cmd_USERMODE_own_name(kw) ==
    format(<<"U","S","E","R","M","O","D","E"," ","{","}"," ","{","}">>, <<f("nick", kw, missing), f("modes", kw, S(<<>>))>>)

cmd_USERMODE(kw) ==
    format(<<"M","O","D","E"," ","{","}"," ","{","}">>, <<f("nick", kw, missing), f("modes", kw, S(<<>>))>>)

cmd_SERVICE(kw) ==
    format(<<"S","E","R","V","I","C","E"," ","{","}"," ","*"," ","{","}"," ","{","}"," ","0"," ",":","{","}">>,
           <<f("nick", kw, missing), f("distribution", kw, missing),
             f("type", kw, missing), f("info", kw, missing)>>)

(* the message is tested for truth instead of presence *)
cmd_QUIT_truthy(kw) ==
    IF "message" \in DOMAIN kw /\ truthy(kw["message"])
    THEN concat(Lit(<<"Q","U","I","T"," ",":">>), f("message", kw, missing))
    ELSE Lit(<<"Q","U","I","T">>)

cmd_QUIT(kw) ==
    IF "message" \in DOMAIN kw
    THEN concat(Lit(<<"Q","U","I","T"," ",":">>), f("message", kw, missing))
    ELSE Lit(<<"Q","U","I","T">>)

cmd_SQUIT(kw) ==
    LET base == concat(Lit(<<"S","Q","U","I","T"," ">>), f("server", kw, missing))
    IN  IF base.kind = "raise" THEN base
        ELSE IF "message" \in DOMAIN kw
        THEN concat(concat(base, Lit(<<" ",":">>)), f("message", kw, missing))
        ELSE base

(* the key slot and its space are left out when there is no key *)
cmd_JOIN_no_trailing(kw) ==
    IF "key" \in DOMAIN kw
    THEN format(<<"J","O","I","N"," ","{","}"," ","{","}">>,
                <<pack("channel", kw, missing, default_sep),
                  pack("key", kw, S(<<>>), default_sep)>>)
    ELSE concat(Lit(<<"J","O","I","N"," ">>), pack("channel", kw, missing, default_sep))

cmd_JOIN(kw) ==
    format(<<"J","O","I","N"," ","{","}"," ","{","}">>,
           <<pack("channel", kw, missing, default_sep),
             pack("key", kw, S(<<>>), default_sep)>>)

cmd_PART(kw) ==
    LET base == concat(Lit(<<"P","A","R","T"," ">>), pack("channel", kw, missing, default_sep))
    IN  IF base.kind = "raise" THEN base
        ELSE IF "message" \in DOMAIN kw
        THEN concat(concat(base, Lit(<<" ",":">>)), f("message", kw, missing))
        ELSE base

cmd_CHANNELMODE(kw) ==
    format(<<"M","O","D","E"," ","{","}"," ","{","}"," ","{","}">>,
           <<f("channel", kw, missing), f("modes", kw, missing),
             f("params", kw, S(<<>>))>>)

cmd_TOPIC(kw) ==
    LET base == concat(Lit(<<"T","O","P","I","C"," ">>), f("channel", kw, missing))
    IN  IF base.kind = "raise" THEN base
        ELSE IF "message" \in DOMAIN kw
        THEN concat(concat(base, Lit(<<" ",":">>)), f("message", kw, missing))
        ELSE base

cmd_NAMES(kw) == concat(Lit(<<"N","A","M","E","S"," ">>), pack("channel", kw, S(<<>>), default_sep))

cmd_LIST(kw) == concat(Lit(<<"L","I","S","T"," ">>), pack("channel", kw, S(<<>>), default_sep))

cmd_INVITE(kw) ==
    format(<<"I","N","V","I","T","E"," ","{","}"," ","{","}">>, <<f("nick", kw, missing), f("channel", kw, missing)>>)

cmd_KICK(kw) ==
    LET base == format(<<"K","I","C","K"," ","{","}"," ","{","}">>,
                       <<pack("channel", kw, missing, default_sep),
                         pack("nick", kw, missing, default_sep)>>)
    IN  IF base.kind = "raise" THEN base
        ELSE IF "message" \in DOMAIN kw
        THEN concat(concat(base, Lit(<<" ",":">>)),
                    pack("message", kw, missing, default_sep))
        ELSE base

cmd_PRIVMSG(kw) ==
    format(<<"P","R","I","V","M","S","G"," ","{","}"," ",":","{","}">>, <<f("target", kw, missing), f("message", kw, missing)>>)

cmd_NOTICE(kw) ==
    format(<<"N","O","T","I","C","E"," ","{","}"," ",":","{","}">>, <<f("target", kw, missing), f("message", kw, missing)>>)

cmd_MOTD(kw) == Lit(<<"M","O","T","D">>)

cmd_LUSERS(kw) == concat(Lit(<<"L","U","S","E","R","S"," ">>), f("mask", kw, S(<<>>)))

cmd_VERSION(kw) == Lit(<<"V","E","R","S","I","O","N">>)

cmd_STATS(kw) == concat(Lit(<<"S","T","A","T","S"," ">>), f("query", kw, S(<<>>)))

(* mask given the empty default next to remote *)
cmd_LINKS_mask_default(kw) ==
    IF "remote" \in DOMAIN kw
    THEN format(<<"L","I","N","K","S"," ","{","}"," ","{","}">>, <<f("remote", kw, missing), f("mask", kw, S(<<>>))>>)
    ELSE IF "mask" \in DOMAIN kw
    THEN concat(Lit(<<"L","I","N","K","S"," ">>), f("mask", kw, missing))
    ELSE Lit(<<"L","I","N","K","S">>)

cmd_LINKS(kw) ==
    IF "remote" \in DOMAIN kw
    THEN format(<<"L","I","N","K","S"," ","{","}"," ","{","}">>, <<f("remote", kw, missing), f("mask", kw, missing)>>)
    ELSE IF "mask" \in DOMAIN kw
    THEN concat(Lit(<<"L","I","N","K","S"," ">>), f("mask", kw, missing))
    ELSE Lit(<<"L","I","N","K","S">>)

cmd_TIME(kw) == Lit(<<"T","I","M","E">>)

cmd_CONNECT(kw) ==
    format(<<"C","O","N","N","E","C","T"," ","{","}"," ","{","}"," ","{","}">>,
           <<f("target", kw, missing), f("port", kw, missing),
             f("remote", kw, S(<<>>))>>)

cmd_TRACE(kw) == Lit(<<"T","R","A","C","E">>)

cmd_ADMIN(kw) == Lit(<<"A","D","M","I","N">>)

cmd_INFO(kw) == Lit(<<"I","N","F","O">>)

cmd_SERVLIST(kw) ==
    format(<<"S","E","R","V","L","I","S","T"," ","{","}"," ","{","}">>, <<f("mask", kw, S(<<>>)), f("type", kw, S(<<>>))>>)

cmd_SQUERY(kw) ==
    format(<<"S","Q","U","E","R","Y"," ","{","}"," ",":","{","}">>, <<f("target", kw, missing), f("message", kw, missing)>>)

cmd_WHO(kw) == concat(Lit(<<"W","H","O"," ">>), f("mask", kw, S(<<>>)))

cmd_WHOIS(kw) == concat(Lit(<<"W","H","O","I","S"," ">>), f("mask", kw, missing))

cmd_WHOWAS(kw) ==
    format(<<"W","H","O","W","A","S"," ","{","}"," ","{","}">>,
           <<pack("nick", kw, missing, default_sep), f("count", kw, S(<<>>))>>)

cmd_KILL(kw) ==
    format(<<"K","I","L","L"," ","{","}"," ",":","{","}">>, <<f("nick", kw, missing), f("message", kw, missing)>>)

cmd_PING(kw) ==
    LET message == format(<<"P","I","N","G"," ","{","}"," ","{","}">>,
                          <<f("server1", kw, S(<<>>)), f("server2", kw, S(<<>>))>>)
    IN  IF "message" \in DOMAIN kw
        THEN concat(concat(message, Lit(<<" ",":">>)), f("message", kw, missing))
        ELSE message

cmd_PONG(kw) ==
    LET message == format(<<"P","O","N","G"," ","{","}"," ","{","}">>,
                          <<f("server1", kw, S(<<>>)), f("server2", kw, S(<<>>))>>)
    IN  IF "message" \in DOMAIN kw
        THEN concat(concat(message, Lit(<<" ",":">>)), f("message", kw, missing))
        ELSE message

cmd_AWAY(kw) ==
    IF "message" \in DOMAIN kw
    THEN concat(Lit(<<"A","W","A","Y"," ",":">>), f("message", kw, missing))
    ELSE Lit(<<"A","W","A","Y">>)

cmd_REHASH(kw) == Lit(<<"R","E","H","A","S","H">>)

cmd_DIE(kw) == Lit(<<"D","I","E">>)

cmd_RESTART(kw) == Lit(<<"R","E","S","T","A","R","T">>)

cmd_SUMMON(kw) ==
    format(<<"S","U","M","M","O","N"," ","{","}"," ","{","}">>, <<f("nick", kw, missing), f("channel", kw, S(<<>>))>>)

cmd_USERS(kw) == Lit(<<"U","S","E","R","S">>)

cmd_WALLOPS(kw) == concat(Lit(<<"W","A","L","L","O","P","S"," ",":">>), f("message", kw, missing))

(* nick given the empty default *)
cmd_USERHOST_default(kw) == concat(Lit(<<"U","S","E","R","H","O","S","T"," ">>), pack("nick", kw, S(<<>>), <<" ">>))

cmd_USERHOST(kw) == concat(Lit(<<"U","S","E","R","H","O","S","T"," ">>), pack("nick", kw, missing, <<" ">>))

cmd_ISON(kw) == concat(Lit(<<"I","S","O","N"," ">>), pack("nick", kw, missing, <<" ">>))

(* the message does not carry the command *)
unknown_command_no_name(name) == ValueError(<<"U","n","k","n","o","w","n"," ","c","o","m","m","a","n","d">>)

(* the final else of the chain *)
unknown_command(name) ==
    ValueError(format_str(<<"U","n","k","n","o","w","n"," ","c","o","m","m","a","n","d"," ","'","{","}","'">>, <<name>>))

(* the if/elif chain over the upper-cased command *)
dispatch(name, kw) ==
    CASE name = <<"P","A","S","S">> -> cmd_PASS(kw)
      [] name = <<"N","I","C","K">> -> cmd_NICK(kw)
      [] name = <<"U","S","E","R">> -> cmd_USER(kw)
      [] name = <<"O","P","E","R">> -> cmd_OPER(kw)
      [] name = <<"U","S","E","R","M","O","D","E">> -> cmd_USERMODE(kw)
      [] name = <<"S","E","R","V","I","C","E">> -> cmd_SERVICE(kw)
      [] name = <<"Q","U","I","T">> -> cmd_QUIT(kw)
      [] name = <<"S","Q","U","I","T">> -> cmd_SQUIT(kw)
      [] name = <<"J","O","I","N">> -> cmd_JOIN(kw)
      [] name = <<"P","A","R","T">> -> cmd_PART(kw)
      [] name = <<"C","H","A","N","N","E","L","M","O","D","E">> -> cmd_CHANNELMODE(kw)
      [] name = <<"T","O","P","I","C">> -> cmd_TOPIC(kw)
      [] name = <<"N","A","M","E","S">> -> cmd_NAMES(kw)
      [] name = <<"L","I","S","T">> -> cmd_LIST(kw)
      [] name = <<"I","N","V","I","T","E">> -> cmd_INVITE(kw)
      [] name = <<"K","I","C","K">> -> cmd_KICK(kw)
      [] name = <<"P","R","I","V","M","S","G">> -> cmd_PRIVMSG(kw)
      [] name = <<"N","O","T","I","C","E">> -> cmd_NOTICE(kw)
      [] name = <<"M","O","T","D">> -> cmd_MOTD(kw)
      [] name = <<"L","U","S","E","R","S">> -> cmd_LUSERS(kw)
      [] name = <<"V","E","R","S","I","O","N">> -> cmd_VERSION(kw)
      [] name = <<"S","T","A","T","S">> -> cmd_STATS(kw)
      [] name = <<"L","I","N","K","S">> -> cmd_LINKS(kw)
      [] name = <<"T","I","M","E">> -> cmd_TIME(kw)
      [] name = <<"C","O","N","N","E","C","T">> -> cmd_CONNECT(kw)
      [] name = <<"T","R","A","C","E">> -> cmd_TRACE(kw)
      [] name = <<"A","D","M","I","N">> -> cmd_ADMIN(kw)
      [] name = <<"I","N","F","O">> -> cmd_INFO(kw)
      [] name = <<"S","E","R","V","L","I","S","T">> -> cmd_SERVLIST(kw)
      [] name = <<"S","Q","U","E","R","Y">> -> cmd_SQUERY(kw)
      [] name = <<"W","H","O">> -> cmd_WHO(kw)
      [] name = <<"W","H","O","I","S">> -> cmd_WHOIS(kw)
      [] name = <<"W","H","O","W","A","S">> -> cmd_WHOWAS(kw)
      [] name = <<"K","I","L","L">> -> cmd_KILL(kw)
      [] name = <<"P","I","N","G">> -> cmd_PING(kw)
      [] name = <<"P","O","N","G">> -> cmd_PONG(kw)
      [] name = <<"A","W","A","Y">> -> cmd_AWAY(kw)
      [] name = <<"R","E","H","A","S","H">> -> cmd_REHASH(kw)
      [] name = <<"D","I","E">> -> cmd_DIE(kw)
      [] name = <<"R","E","S","T","A","R","T">> -> cmd_RESTART(kw)
      [] name = <<"S","U","M","M","O","N">> -> cmd_SUMMON(kw)
      [] name = <<"U","S","E","R","S">> -> cmd_USERS(kw)
      [] name = <<"W","A","L","L","O","P","S">> -> cmd_WALLOPS(kw)
      [] name = <<"U","S","E","R","H","O","S","T">> -> cmd_USERHOST(kw)
      [] name = <<"I","S","O","N">> -> cmd_ISON(kw)
      [] OTHER -> unknown_command(name)

(* the command is looked up as it was spelled *)
normalize_no_upper(cmd) ==
    IF ~truthy(cmd) THEN ValueError(<<"M","u","s","t"," ","p","r","o","v","i","d","e"," ","a"," ","c","o","m","m","a","n","d">>)
    ELSE IF cmd.t = "str" THEN Return(cmd.v)
    ELSE ValueError(<<"C","o","m","m","a","n","d"," ","m","u","s","t"," ","b","e"," ","a"," ","s","t","r">>)

(* the emptiness check is left out *)
normalize_no_empty_check(cmd) ==
    IF cmd.t = "str" THEN Return(upper(cmd.v))
    ELSE ValueError(<<"C","o","m","m","a","n","d"," ","m","u","s","t"," ","b","e"," ","a"," ","s","t","r">>)

(* lines 30-35: the checks on the command, and its upper-casing *)
normalize(cmd) ==
    IF ~truthy(cmd) THEN ValueError(<<"M","u","s","t"," ","p","r","o","v","i","d","e"," ","a"," ","c","o","m","m","a","n","d">>)
    ELSE IF cmd.t = "str" THEN Return(upper(cmd.v))
    ELSE ValueError(<<"C","o","m","m","a","n","d"," ","m","u","s","t"," ","b","e"," ","a"," ","s","t","r">>)

pack_command(cmd, kw) ==
    LET name == normalize(cmd)
    IN  IF name.kind = "raise" THEN name ELSE dispatch(name.val, kw)

-----------------------------------------------------------------------------
(* The calls that are made: command spellings and keyword arguments *)

MaxElems == 2

Strings == {<<>>, <<"#","a">>, <<"k","1">>}

Ints == {0, 42}

Elems == {S(<<"#","a">>), S(<<"k","1">>)}

(* three nicks, as in USERHOST Wiz Michael syrk *)
Trio == <<S(<<"#","a">>), S(<<"k","1">>), S(<<"#","a">>)>>

RECURSIVE Lists(_)
Lists(n) ==
    IF n = 0 THEN {<<>>}
    ELSE Lists(n - 1) \cup {Append(l, e) : l \in {x \in Lists(n - 1) : Len(x) = n - 1}, e \in Elems}

(* values given to a field that is read with f *)
ScalarValues == {S(s) : s \in Strings} \cup {I(n) : n \in Ints} \cup {L(<<S(<<"#","a">>), S(<<"k","1">>)>>)}

(* values given to a field that is read with pack *)
JoinedValues ==
    {S(s) : s \in Strings} \cup {I(n) : n \in Ints} \cup {L(l) : l \in Lists(MaxElems)}
    \cup {L(Trio), L(<<S(<<>>)>>)}

(* the fields each command reads, by the helper that reads them *)
Table ==
    <<[name |-> <<"P","A","S","S">>, scalar |-> {"password"}, joined |-> {}],
       [name |-> <<"N","I","C","K">>, scalar |-> {"nick"}, joined |-> {}],
       [name |-> <<"U","S","E","R">>, scalar |-> {"user", "mode", "realname"}, joined |-> {}],
       [name |-> <<"O","P","E","R">>, scalar |-> {"user", "password"}, joined |-> {}],
       [name |-> <<"U","S","E","R","M","O","D","E">>, scalar |-> {"nick", "modes"}, joined |-> {}],
       [name |-> <<"S","E","R","V","I","C","E">>, scalar |-> {"nick", "distribution", "type", "info"}, joined |-> {}],
       [name |-> <<"Q","U","I","T">>, scalar |-> {"message"}, joined |-> {}],
       [name |-> <<"S","Q","U","I","T">>, scalar |-> {"server", "message"}, joined |-> {}],
       [name |-> <<"J","O","I","N">>, scalar |-> {}, joined |-> {"channel", "key"}],
       [name |-> <<"P","A","R","T">>, scalar |-> {"message"}, joined |-> {"channel"}],
       [name |-> <<"C","H","A","N","N","E","L","M","O","D","E">>, scalar |-> {"channel", "modes", "params"}, joined |-> {}],
       [name |-> <<"T","O","P","I","C">>, scalar |-> {"channel", "message"}, joined |-> {}],
       [name |-> <<"N","A","M","E","S">>, scalar |-> {}, joined |-> {"channel"}],
       [name |-> <<"L","I","S","T">>, scalar |-> {}, joined |-> {"channel"}],
       [name |-> <<"I","N","V","I","T","E">>, scalar |-> {"nick", "channel"}, joined |-> {}],
       [name |-> <<"K","I","C","K">>, scalar |-> {}, joined |-> {"channel", "nick", "message"}],
       [name |-> <<"P","R","I","V","M","S","G">>, scalar |-> {"target", "message"}, joined |-> {}],
       [name |-> <<"N","O","T","I","C","E">>, scalar |-> {"target", "message"}, joined |-> {}],
       [name |-> <<"M","O","T","D">>, scalar |-> {}, joined |-> {}],
       [name |-> <<"L","U","S","E","R","S">>, scalar |-> {"mask"}, joined |-> {}],
       [name |-> <<"V","E","R","S","I","O","N">>, scalar |-> {}, joined |-> {}],
       [name |-> <<"S","T","A","T","S">>, scalar |-> {"query"}, joined |-> {}],
       [name |-> <<"L","I","N","K","S">>, scalar |-> {"remote", "mask"}, joined |-> {}],
       [name |-> <<"T","I","M","E">>, scalar |-> {}, joined |-> {}],
       [name |-> <<"C","O","N","N","E","C","T">>, scalar |-> {"target", "port", "remote"}, joined |-> {}],
       [name |-> <<"T","R","A","C","E">>, scalar |-> {}, joined |-> {}],
       [name |-> <<"A","D","M","I","N">>, scalar |-> {}, joined |-> {}],
       [name |-> <<"I","N","F","O">>, scalar |-> {}, joined |-> {}],
       [name |-> <<"S","E","R","V","L","I","S","T">>, scalar |-> {"mask", "type"}, joined |-> {}],
       [name |-> <<"S","Q","U","E","R","Y">>, scalar |-> {"target", "message"}, joined |-> {}],
       [name |-> <<"W","H","O">>, scalar |-> {"mask"}, joined |-> {}],
       [name |-> <<"W","H","O","I","S">>, scalar |-> {"mask"}, joined |-> {}],
       [name |-> <<"W","H","O","W","A","S">>, scalar |-> {"count"}, joined |-> {"nick"}],
       [name |-> <<"K","I","L","L">>, scalar |-> {"nick", "message"}, joined |-> {}],
       [name |-> <<"P","I","N","G">>, scalar |-> {"server1", "server2", "message"}, joined |-> {}],
       [name |-> <<"P","O","N","G">>, scalar |-> {"server1", "server2", "message"}, joined |-> {}],
       [name |-> <<"A","W","A","Y">>, scalar |-> {"message"}, joined |-> {}],
       [name |-> <<"R","E","H","A","S","H">>, scalar |-> {}, joined |-> {}],
       [name |-> <<"D","I","E">>, scalar |-> {}, joined |-> {}],
       [name |-> <<"R","E","S","T","A","R","T">>, scalar |-> {}, joined |-> {}],
       [name |-> <<"S","U","M","M","O","N">>, scalar |-> {"nick", "channel"}, joined |-> {}],
       [name |-> <<"U","S","E","R","S">>, scalar |-> {}, joined |-> {}],
       [name |-> <<"W","A","L","L","O","P","S">>, scalar |-> {"message"}, joined |-> {}],
       [name |-> <<"U","S","E","R","H","O","S","T">>, scalar |-> {}, joined |-> {"nick"}],
       [name |-> <<"I","S","O","N">>, scalar |-> {}, joined |-> {"nick"}]>>

Supported == {Table[i].name : i \in 1..Len(Table)}

ToLower == [c \in {UpperCase[i] : i \in 1..26} |->
               LowerCase[CHOOSE i \in 1..26 : UpperCase[i] = c]]

lower_char(c) == IF c \in DOMAIN ToLower THEN ToLower[c] ELSE c

Lower(s) == [i \in 1..Len(s) |-> lower_char(s[i])]

Capital(s) == [i \in 1..Len(s) |-> IF i = 1 THEN s[i] ELSE lower_char(s[i])]

(* the spellings a command is called in: JOIN, join, Join *)
Spellings(s) == {s, Lower(s), Capital(s)}

Unsupported == {<<"X","Y","Z","Z","Y">>, <<"M","O","D","E">>, <<"J","O","I","N","S">>, <<"P","A","S">>, <<"J","O","I","N"," ">>, <<"4","2">>}

NotStr == {None, I(0), I(5), L(<<>>), L(<<S(<<"#","a">>)>>)}

MaxWithForeign == 2

NoKwargs == [x \in {} |-> None]

(* a field the command does not read *)
Foreign(row) ==
    IF "password" \in row.scalar THEN "channel" ELSE "password"

ValuesOf(row, fld) ==
    IF fld \in row.joined THEN JoinedValues
    ELSE IF fld \in row.scalar THEN ScalarValues
    ELSE {S(<<"k","1">>)}

RECURSIVE KwargsOver(_, _)
(* every assignment of values to every subset of the fields flds *)
KwargsOver(row, flds) ==
    IF flds = {} THEN {NoKwargs}
    ELSE LET fld == CHOOSE x \in flds : TRUE
             rest == KwargsOver(row, flds \ {fld})
         IN  rest \cup {kw @@ (fld :> v) : kw \in rest, v \in ValuesOf(row, fld)}

(* the keyword arguments of a call: any of the fields the command reads,
   and next to at most MaxWithForeign of them a field it does not read *)
Kwargs(row) ==
    LET own == KwargsOver(row, row.scalar \cup row.joined)
    IN  own \cup {kw @@ (Foreign(row) :> v) :
                    kw \in {k \in own : Cardinality(DOMAIN k) <= MaxWithForeign},
                    v \in ValuesOf(row, Foreign(row))}

(* keyword arguments passed with a command that is not in the table: the
   ones of PASS and of JOIN *)
OtherKwargs == Kwargs(Table[1]) \cup Kwargs(Table[9])

-----------------------------------------------------------------------------
(* The state machine: a call is set up, then pack_command runs *)

InitSupported ==
    \E i \in 1..Len(Table) :
        /\ command \in {S(sp) : sp \in Spellings(Table[i].name)}
        /\ kwargs \in Kwargs(Table[i])

InitUnsupported ==
    /\ command \in {S(sp) : sp \in UNION {Spellings(u) : u \in Unsupported} \cup {<<>>}}
                  \cup NotStr
    /\ kwargs \in OtherKwargs

Init ==
    /\ InitSupported \/ InitUnsupported
    /\ result = NoResult
    /\ pc = "call"

Call ==
    /\ pc = "call"
    /\ result' = pack_command(command, kwargs)
    /\ pc' = "done"
    /\ UNCHANGED <<command, kwargs>>

Next == Call

Spec == Init /\ [][Next]_vars

-----------------------------------------------------------------------------
(* Vocabulary of the properties *)

Done == pc = "done"

Returned == Done /\ result.kind = "return"

StartsWith(s, p) == Len(s) >= Len(p) /\ SubSeq(s, 1, Len(p)) = p

EndsWith(s, p) == Len(s) >= Len(p) /\ SubSeq(s, Len(s) - Len(p) + 1, Len(s)) = p

AllNames == Supported \cup Unsupported

(* the name that a lower-case spelling is a spelling of *)
NameOfLower == [l \in {Lower(n) : n \in AllNames} |->
                   CHOOSE n \in AllNames : Lower(n) = l]

SupportedLower == {Lower(n) : n \in Supported}

(* the upper-case form of the command passed *)
CalledName ==
    IF command.t = "str" /\ Lower(command.v) \in DOMAIN NameOfLower
    THEN NameOfLower[Lower(command.v)]
    ELSE <<>>

(* the command passed is the name n in some spelling *)
Called(n) == CalledName = n

SupportedCall == command.t = "str" /\ Lower(command.v) \in SupportedLower

Has(fld) == fld \in DOMAIN kwargs

Without(kw, fld) == [x \in DOMAIN kw \ {fld} |-> kw[x]]

-----------------------------------------------------------------------------
(* C1, as stated: every line returned for a supported command begins with
   the upper-cased command name and a space, or is that name alone. *)
C1_NamePrefix ==
    (Returned /\ SupportedCall) =>
        \/ StartsWith(result.val, CalledName \o <<" ">>)
        \/ result.val = CalledName

(* the word a command is sent under: USERMODE and CHANNELMODE go out as MODE *)
WireWord(n) == IF n \in {<<"U","S","E","R","M","O","D","E">>, <<"C","H","A","N","N","E","L","M","O","D","E">>} THEN <<"M","O","D","E">> ELSE n

(* C1, amended: every line returned for a supported command other than
   USERMODE and CHANNELMODE begins with the upper-cased command name and a
   space, or is that name alone; a line returned for USERMODE or CHANNELMODE
   begins with "MODE " instead. *)
C1_WireWordPrefix ==
    (Returned /\ SupportedCall) =>
        \/ StartsWith(result.val, WireWord(CalledName) \o <<" ">>)
        \/ result.val = CalledName

C1_Witness ==
    /\ Returned
    /\ Called(<<"U","S","E","R","M","O","D","E">>)
    /\ StartsWith(result.val, <<"M","O","D","E"," ">>)

(* C2: two spellings of a command that differ only in letter case have the
   same outcome on the same keyword arguments. *)
C2_CaseInsensitive ==
    (Done /\ command.t = "str" /\ command.v # <<>>) =>
        \A sp \in Spellings(CalledName) : pack_command(S(sp), kwargs) = result

C2_Witness ==
    /\ Returned
    /\ command = S(<<"j","o","i","n">>)
    /\ result.val = <<"J","O","I","N"," ","#","a"," ">>

(* C3: a non-empty command whose upper-case form is not in the table raises
   the unknown-command ValueError carrying the upper-case name, whatever the
   keyword arguments. *)
C3_UnknownCommand ==
    (Done /\ command.t = "str" /\ command.v # <<>> /\ ~SupportedCall) =>
        result = ValueError(<<"U","n","k","n","o","w","n"," ","c","o","m","m","a","n","d"," ","'">> \o CalledName \o <<"'">>)

C3_Witness ==
    /\ Done
    /\ command = S(<<"x","y","z","z","y">>)
    /\ Has("password")
    /\ result = ValueError(<<"U","n","k","n","o","w","n"," ","c","o","m","m","a","n","d"," ","'","X","Y","Z","Z","Y","'">>)

(* the fields the grammar table marks as required *)
Required(n) ==
    CASE n = <<"P","A","S","S">> -> {"password"}
      [] n = <<"N","I","C","K">> -> {"nick"}
      [] n = <<"U","S","E","R">> -> {"user", "realname"}
      [] n = <<"O","P","E","R">> -> {"user", "password"}
      [] n = <<"U","S","E","R","M","O","D","E">> -> {"nick"}
      [] n = <<"S","E","R","V","I","C","E">> -> {"nick", "distribution", "type", "info"}
      [] n = <<"S","Q","U","I","T">> -> {"server"}
      [] n = <<"J","O","I","N">> -> {"channel"}
      [] n = <<"P","A","R","T">> -> {"channel"}
      [] n = <<"C","H","A","N","N","E","L","M","O","D","E">> -> {"channel", "modes"}
      [] n = <<"T","O","P","I","C">> -> {"channel"}
      [] n = <<"I","N","V","I","T","E">> -> {"nick", "channel"}
      [] n = <<"K","I","C","K">> -> {"channel", "nick"}
      [] n = <<"P","R","I","V","M","S","G">> -> {"target", "message"}
      [] n = <<"N","O","T","I","C","E">> -> {"target", "message"}
      [] n = <<"C","O","N","N","E","C","T">> -> {"target", "port"}
      [] n = <<"S","Q","U","E","R","Y">> -> {"target", "message"}
      [] n = <<"W","H","O","I","S">> -> {"mask"}
      [] n = <<"W","H","O","W","A","S">> -> {"nick"}
      [] n = <<"K","I","L","L">> -> {"nick", "message"}
      [] n = <<"S","U","M","M","O","N">> -> {"nick"}
      [] n = <<"W","A","L","L","O","P","S">> -> {"message"}
      [] OTHER -> {}

(* C4: a supported command called without one of its required fields raises
   KeyError naming a required field that is missing, whatever else is
   passed. *)
C4_MissingRequired ==
    (Done /\ SupportedCall /\ Required(CalledName) \ DOMAIN kwargs # {}) =>
        /\ result.kind = "raise"
        /\ result.exc = "KeyError"
        /\ result.key \in Required(CalledName) \ DOMAIN kwargs

C4_Witness ==
    /\ Done
    /\ Called(<<"U","S","E","R">>)
    /\ Has("user") /\ Has("mode") /\ ~Has("realname")
    /\ result = KeyError("realname")

(* C5: the empty command raises the must-provide-a-command ValueError for
   every set of keyword arguments. *)
C5_EmptyCommand ==
    (Done /\ command = S(<<>>)) => result = ValueError(<<"M","u","s","t"," ","p","r","o","v","i","d","e"," ","a"," ","c","o","m","m","a","n","d">>)

C5_Witness ==
    /\ Done
    /\ command = S(<<>>)
    /\ Has("channel")
    /\ result = ValueError(<<"M","u","s","t"," ","p","r","o","v","i","d","e"," ","a"," ","c","o","m","m","a","n","d">>)

(* the row of the table for a command, and for the command passed *)
RowOf == [n \in Supported |-> Table[CHOOSE i \in 1..Len(Table) : Table[i].name = n]]

CalledRow == RowOf[CalledName]

IsOneStr(v) == v.t = "seq" /\ Len(v.v) = 1 /\ v.v[1].t = "str"

(* C6: a list-joinable field given as the one-element list [s] has the same
   outcome as the same field given as the str s, the rest being equal. *)
C6_OneElementList ==
    (Done /\ SupportedCall) =>
        \A fld \in CalledRow.joined \cap DOMAIN kwargs :
            IsOneStr(kwargs[fld]) =>
                pack_command(command, [kwargs EXCEPT ![fld] = kwargs[fld].v[1]]) = result

C6_Witness ==
    /\ Returned
    /\ Called(<<"K","I","C","K">>)
    /\ Has("channel") /\ Has("nick") /\ Has("message")
    /\ kwargs["message"] = L(<<S(<<"k","1">>)>>)
    /\ kwargs["channel"] = S(<<"#","a">>)
    /\ kwargs["nick"] = S(<<"k","1">>)
    /\ result.val = <<"K","I","C","K"," ","#","a"," ","k","1"," ",":","k","1">>

RECURSIVE Joined(_, _)
(* the strs of a list in their order, sep between neighbours *)
Joined(l, sep) ==
    IF l = <<>> THEN <<>>
    ELSE IF Len(l) = 1 THEN l[1].v
    ELSE Joined(SubSeq(l, 1, Len(l) - 1), sep) \o sep \o l[Len(l)].v

(* what the list packer is to give for a str or for a list of strs *)
Packed(v, sep) == IF v.t = "str" THEN v.v ELSE Joined(v.v, sep)

StrOrList(fld) == Has(fld) /\ kwargs[fld].t \in {"str", "seq"}

(* C7: a present list-joinable field that is a str appears in the line as it
   is, and one that is a list appears as its elements in their order with
   the separator of the command between them: "," and, for USERHOST and
   ISON, " ". *)
C7_ListPacker ==
    Done =>
        /\ (Called(<<"J","O","I","N">>) /\ StrOrList("channel") /\ StrOrList("key")) =>
              result = Return(<<"J","O","I","N"," ">> \o Packed(kwargs["channel"], <<",">>)
                              \o <<" ">> \o Packed(kwargs["key"], <<",">>))
        /\ (Called(<<"U","S","E","R","H","O","S","T">>) /\ StrOrList("nick")) =>
              result = Return(<<"U","S","E","R","H","O","S","T"," ">> \o Packed(kwargs["nick"], <<" ">>))
        /\ (Called(<<"I","S","O","N">>) /\ StrOrList("nick")) =>
              result = Return(<<"I","S","O","N"," ">> \o Packed(kwargs["nick"], <<" ">>))
        /\ (Called(<<"N","A","M","E","S">>) /\ StrOrList("channel")) =>
              result = Return(<<"N","A","M","E","S"," ">> \o Packed(kwargs["channel"], <<",">>))
        /\ (Called(<<"L","I","S","T">>) /\ StrOrList("channel")) =>
              result = Return(<<"L","I","S","T"," ">> \o Packed(kwargs["channel"], <<",">>))
        /\ (Called(<<"P","A","R","T">>) /\ StrOrList("channel") /\ ~Has("message")) =>
              result = Return(<<"P","A","R","T"," ">> \o Packed(kwargs["channel"], <<",">>))
        /\ (Called(<<"W","H","O","W","A","S">>) /\ StrOrList("nick") /\ ~Has("count")) =>
              result = Return(<<"W","H","O","W","A","S"," ">> \o Packed(kwargs["nick"], <<",">>) \o <<" ">>)
        /\ (Called(<<"K","I","C","K">>) /\ StrOrList("channel") /\ StrOrList("nick")
                /\ StrOrList("message")) =>
              result = Return(<<"K","I","C","K"," ">> \o Packed(kwargs["channel"], <<",">>)
                              \o <<" ">> \o Packed(kwargs["nick"], <<",">>)
                              \o <<" ",":">> \o Packed(kwargs["message"], <<",">>))
        /\ (command = S(<<"U","S","E","R","H","O","S","T">>) /\ Has("nick")
                /\ kwargs["nick"] = L(Trio)) =>
              result = Return(<<"U","S","E","R","H","O","S","T"," ","#","a"," ","k","1"," ","#","a">>)

C7_Witness ==
    /\ Returned
    /\ command = S(<<"J","O","I","N">>)
    /\ Has("channel") /\ Has("key")
    /\ kwargs["channel"] = L(<<S(<<"#","a">>), S(<<"k","1">>)>>)
    /\ kwargs["key"] = L(<<S(<<"k","1">>), S(<<"#","a">>)>>)
    /\ result.val = <<"J","O","I","N"," ","#","a",",","k","1"," ","k","1",",","#","a">>

(* C8, as stated: USERHOST and ISON called without nick return the command
   word followed by a space. *)
C8_NickDefault ==
    (Done /\ CalledName \in {<<"U","S","E","R","H","O","S","T">>, <<"I","S","O","N">>} /\ ~Has("nick")) =>
        result = Return(CalledName \o <<" ">>)

(* C8, amended: for USERHOST and ISON the nick field is required, it has no
   default: called without nick they return no line and raise KeyError for
   nick. *)
C8_NickRequired ==
    (Done /\ CalledName \in {<<"U","S","E","R","H","O","S","T">>, <<"I","S","O","N">>} /\ ~Has("nick")) =>
        result = KeyError("nick")

C8_Witness ==
    /\ Done
    /\ command = S(<<"U","S","E","R","H","O","S","T">>)
    /\ kwargs = NoKwargs
    /\ result = KeyError("nick")

OptionalMessage ==
    {<<"Q","U","I","T">>, <<"A","W","A","Y">>, <<"S","Q","U","I","T">>, <<"P","A","R","T">>, <<"T","O","P","I","C">>, <<"K","I","C","K">>, <<"P","I","N","G">>, <<"P","O","N","G">>}

(* the line for the same call without the key message *)
WithoutMessage == pack_command(command, Without(kwargs, "message"))

(* C9: for the commands with an optional message, a line returned ends in
   the segment " :<message>" exactly when the key message is present, an
   empty message included; without the key the line has no colon, and QUIT
   and AWAY are the bare command word. *)
C9_MessagePresence ==
    (Returned /\ CalledName \in OptionalMessage) =>
        IF Has("message")
        THEN /\ WithoutMessage.kind = "return"
             /\ StartsWith(result.val, WithoutMessage.val \o <<" ",":">>)
             /\ kwargs["message"].t = "str" =>
                   result.val = WithoutMessage.val \o <<" ",":">> \o kwargs["message"].v
             /\ CalledName \in {<<"Q","U","I","T">>, <<"A","W","A","Y">>} =>
                   StartsWith(result.val, CalledName \o <<" ",":">>)
        ELSE /\ \A i \in 1..Len(result.val) : result.val[i] # ":"
             /\ CalledName \in {<<"Q","U","I","T">>, <<"A","W","A","Y">>} => result.val = CalledName

C9_Witness ==
    /\ Returned
    /\ command = S(<<"Q","U","I","T">>)
    /\ Has("message")
    /\ kwargs["message"] = S(<<>>)
    /\ result.val = <<"Q","U","I","T"," ",":">>

(* the optional field, defaulting to the empty string, that fills the last
   slot of a command's template *)
LastSlot(n) ==
    CASE n = <<"J","O","I","N">> -> "key"
      [] n = <<"U","S","E","R","M","O","D","E">> -> "modes"
      [] n = <<"C","H","A","N","N","E","L","M","O","D","E">> -> "params"
      [] n = <<"N","A","M","E","S">> -> "channel"
      [] n = <<"L","I","S","T">> -> "channel"
      [] n = <<"L","U","S","E","R","S">> -> "mask"
      [] n = <<"W","H","O">> -> "mask"
      [] n = <<"S","T","A","T","S">> -> "query"
      [] n = <<"C","O","N","N","E","C","T">> -> "remote"
      [] n = <<"S","E","R","V","L","I","S","T">> -> "type"
      [] n = <<"W","H","O","W","A","S">> -> "count"
      [] n = <<"S","U","M","M","O","N">> -> "channel"
      [] n = <<"P","I","N","G">> -> "server2"
      [] n = <<"P","O","N","G">> -> "server2"
      [] OTHER -> ""

(* C10, as stated: a line returned by a command whose last template slot is
   an omitted optional field ends in a space. *)
C10_TrailingSpace ==
    (Returned /\ LastSlot(CalledName) # "" /\ ~Has(LastSlot(CalledName))) =>
        EndsWith(result.val, <<" ">>)

(* C10, amended: a line returned by a command whose last template slot is an
   omitted optional field ends in a space, for PING and PONG provided that
   message is omitted too; with a message, PING and PONG keep the space and
   the " :<message>" segment follows it.  JOIN of "#a" without key is
   "JOIN #a " and PING without arguments is "PING" and two spaces. *)
C10_TrailingSpaceKept ==
    (Returned /\ LastSlot(CalledName) # "" /\ ~Has(LastSlot(CalledName))) =>
        /\ (CalledName \in {<<"P","I","N","G">>, <<"P","O","N","G">>} /\ Has("message")) =>
              /\ EndsWith(WithoutMessage.val, <<" ">>)
              /\ StartsWith(result.val, WithoutMessage.val \o <<" ",":">>)
        /\ ~(CalledName \in {<<"P","I","N","G">>, <<"P","O","N","G">>} /\ Has("message")) =>
              EndsWith(result.val, <<" ">>)
        /\ (CalledName = <<"J","O","I","N">> /\ kwargs = [channel |-> S(<<"#","a">>)]) =>
              result.val = <<"J","O","I","N"," ","#","a"," ">>
        /\ (CalledName = <<"P","I","N","G">> /\ kwargs = NoKwargs) =>
              result.val = <<"P","I","N","G"," "," ">>

C10_Witness ==
    /\ Returned
    /\ command = S(<<"J","O","I","N">>)
    /\ Has("channel") /\ ~Has("key") /\ ~Has("password")
    /\ kwargs["channel"] = S(<<"#","a">>)
    /\ result.val = <<"J","O","I","N"," ","#","a"," ">>

(* the keyword arguments that are among the fields flds *)
Only(kw, flds) == [x \in DOMAIN kw \cap flds |-> kw[x]]

IsStr(fld) == Has(fld) /\ kwargs[fld].t = "str"

(* C11: LINKS without remote and mask is "LINKS"; with mask alone it is
   "LINKS <mask>"; with both it is "LINKS <remote> <mask>"; with remote and
   no mask it returns no line and raises KeyError for mask.  Nothing but
   remote and mask bears on the outcome. *)
C11_Links ==
    (Done /\ Called(<<"L","I","N","K","S">>)) =>
        /\ (~Has("remote") /\ ~Has("mask")) => result = Return(<<"L","I","N","K","S">>)
        /\ (~Has("remote") /\ Has("mask")) =>
              /\ result.kind = "return"
              /\ StartsWith(result.val, <<"L","I","N","K","S"," ">>)
              /\ IsStr("mask") => result.val = <<"L","I","N","K","S"," ">> \o kwargs["mask"].v
        /\ (Has("remote") /\ Has("mask")) =>
              /\ result.kind = "return"
              /\ StartsWith(result.val, <<"L","I","N","K","S"," ">>)
              /\ (IsStr("remote") /\ IsStr("mask")) =>
                    result.val = <<"L","I","N","K","S"," ">> \o kwargs["remote"].v
                                 \o <<" ">> \o kwargs["mask"].v
        /\ (Has("remote") /\ ~Has("mask")) => result = KeyError("mask")
        /\ result = pack_command(command, Only(kwargs, {"remote", "mask"}))

C11_Witness ==
    /\ Done
    /\ command = S(<<"L","I","N","K","S">>)
    /\ Has("remote") /\ ~Has("mask") /\ Has("password")
    /\ kwargs["remote"] = S(<<"#","a">>)
    /\ result = KeyError("mask")


====
